---- MODULE Spec2Model ----
(***************************************************************************)
(* Model of compare-pdfs.py: text normalisation, sentence splitting,       *)
(* chunking, the matching loop of find_matches with its report file, and   *)
(* the control flow of main (argument check, dependency check, pdftotext   *)
(* extraction, colour extraction with its PDFMiner fallback).              *)
(*                                                                         *)
(* A Python str is a sequence of characters.  A character is a TLA+ string *)
(* holding the character itself when it is ASCII and a name otherwise:     *)
(*   "BULLET" U+2022, "AUML" U+00E4 (a-umlaut), "NDASH" U+2013,            *)
(*   "ZWSP" U+200B, "YDIA" U+0178 (capital Y with diaeresis),              *)
(*   "ydia" U+00FF (small y with diaeresis).                               *)
(***************************************************************************)
EXTENDS Integers, Sequences, FiniteSets, TLC

(***************************************************************************)
(* Characters                                                              *)
(***************************************************************************)

\* Code point of each character of the model's alphabet (Python compares str
\* by code point; sorted() at line 477 and the regex classes rest on it).
CodePoint(c) ==
    CASE c = "\n" -> 10
      [] c = " " -> 32
      [] c = "," -> 44
      [] c = "." -> 46
      [] c = "1" -> 49
      [] c = "2" -> 50
      [] c = "A" -> 65
      [] c = "B" -> 66
      [] c = "a" -> 97
      [] c = "b" -> 98
      [] c = "c" -> 99
      [] c = "d" -> 100
      [] c = "e" -> 101
      [] c = "f" -> 102
      [] c = "g" -> 103
      [] c = "x" -> 120
      [] c = "y" -> 121
      [] c = "z" -> 122
      [] c = "AUML" -> 228
      [] c = "ydia" -> 255
      [] c = "YDIA" -> 376
      [] c = "ZWSP" -> 8203
      [] c = "NDASH" -> 8211
      [] c = "BULLET" -> 8226
      [] c = "*" -> 42
      [] c = "-" -> 45

\* str.isspace() on the alphabet: what str.split(), str.strip() and \s see.
IsSpace(c) == c \in {" ", "\n"}

\* Line 358: [\x00-\x09\x0b-\x1f\x7f\x80-\xff], the characters deleted first.
IsInvalidChar(c) ==
    LET n == CodePoint(c)
    IN  \/ n <= 9
        \/ (11 <= n /\ n <= 31)
        \/ (127 <= n /\ n <= 255)

\* Line 364: the dash class replaced by "-" (U+00AD is already gone by then).
DashChars == {"NDASH"}

\* Line 367: soft hyphen and zero-width characters, deleted.
ZeroWidthChars == {"ZWSP"}

\* Line 370: the bullet glyphs stripped at the start of the text.
BulletChars == {"*", "BULLET"}

\* Line 376: the punctuation deleted (the period is kept).
PunctChars == {",", ";", ":", "\"", "(", ")"}

\* Line 379: [0-9].
DigitChars == {"0", "1", "2", "3", "4", "5", "6", "7", "8", "9"}

\* Lines 396 and 409: sentence-terminal punctuation.
TerminalChars == {".", "!", "?"}

\* Line 396: [A-Z] and the three upper-case umlauts.
UpperChars == {"A", "B"}

\* str.lower() on one character.
LowerChar(c) ==
    CASE c = "A" -> "a"
      [] c = "B" -> "b"
      [] c = "YDIA" -> "ydia"
      [] OTHER -> c

(***************************************************************************)
(* Python str methods                                                      *)
(***************************************************************************)

\* str.lower()
lower(s) == [i \in 1..Len(s) |-> LowerChar(s[i])]

RECURSIVE SplitFrom(_, _, _)
SplitFrom(s, i, cur) ==
    IF i > Len(s)
    THEN IF cur = <<>> THEN <<>> ELSE <<cur>>
    ELSE IF IsSpace(s[i])
         THEN IF cur = <<>>
              THEN SplitFrom(s, i + 1, <<>>)
              ELSE <<cur>> \o SplitFrom(s, i + 1, <<>>)
         ELSE SplitFrom(s, i + 1, Append(cur, s[i]))

\* str.split(): the maximal runs of non-whitespace characters.
split(s) == SplitFrom(s, 1, <<>>)

RECURSIVE JoinWith(_, _)
\* sep.join(parts)
JoinWith(sep, parts) ==
    IF parts = <<>> THEN <<>>
    ELSE IF Len(parts) = 1 THEN parts[1]
    ELSE parts[1] \o sep \o JoinWith(sep, Tail(parts))

\* ' '.join(parts)
join(parts) == JoinWith(<<" ">>, parts)

\* str.strip()
strip(s) ==
    LET keep == {i \in 1..Len(s) : ~IsSpace(s[i])}
    IN  IF keep = {} THEN <<>>
        ELSE LET lo == CHOOSE i \in keep : \A j \in keep : i <= j
                 hi == CHOOSE i \in keep : \A j \in keep : j <= i
             IN  SubSeq(s, lo, hi)

\* re.sub('[set]', '', s): delete every character of a class.
DeleteChars(s, class) ==
    LET Keep(c) == c \notin class
    IN  SelectSeq(s, Keep)

\* sub in s
Contains(sub, s) ==
    \E i \in 0..(Len(s) - Len(sub)) : SubSeq(s, i + 1, i + Len(sub)) = sub

\* s < t for Python str: lexicographic by code point.
RECURSIVE StrLess(_, _)
StrLess(s, t) ==
    IF t = <<>> THEN FALSE
    ELSE IF s = <<>> THEN TRUE
    ELSE IF s[1] = t[1] THEN StrLess(Tail(s), Tail(t))
    ELSE CodePoint(s[1]) < CodePoint(t[1])

(***************************************************************************)
(* normalize_for_comparison (lines 355-382)                                *)
(***************************************************************************)

\* Line 358: delete control characters and U+0080..U+00FF.
StripInvalid(s) ==
    LET Keep(c) == ~IsInvalidChar(c)
    IN  SelectSeq(s, Keep)

\* Line 364: dashes become "-".
ReplaceDashes(s) == [i \in 1..Len(s) |-> IF s[i] \in DashChars THEN "-" ELSE s[i]]

\* Line 370: re.sub('^[bullets]\s*', '', s): one bullet at position 0 and the
\* whitespace run after it.
StripLeadingBullet(s) ==
    IF s # <<>> /\ s[1] \in BulletChars
    THEN LET rest == {i \in 2..Len(s) : ~IsSpace(s[i])}
         IN  IF rest = {} THEN <<>>
             ELSE SubSeq(s, CHOOSE i \in rest : \A j \in rest : i <= j, Len(s))
    ELSE s

\* Line 379: re.sub('^[0-9]+\.', '', s): a run of digits at position 0 that
\* is followed by a period, with that period.
StripLeadingNumber(s) ==
    LET nondigit == {i \in 1..Len(s) : s[i] \notin DigitChars}
        stop == IF nondigit = {} THEN Len(s) + 1
                ELSE CHOOSE i \in nondigit : \A j \in nondigit : i <= j
    IN  IF stop > 1 /\ stop <= Len(s) /\ s[stop] = "."
        THEN SubSeq(s, stop + 1, Len(s))
        ELSE s

normalize_for_comparison(text) ==
    LET t1 == StripInvalid(text)
        t2 == lower(t1)
        t3 == ReplaceDashes(t2)
        t4 == DeleteChars(t3, ZeroWidthChars)
        t5 == StripLeadingBullet(t4)
        t6 == join(split(t5))
        t7 == DeleteChars(t6, PunctChars)
        t8 == StripLeadingNumber(t7)
    IN  strip(t8)

(***************************************************************************)
(* extract_sentences (lines 384-419)                                       *)
(***************************************************************************)

RECURSIVE SplitOnFrom(_, _, _, _)
SplitOnFrom(s, sep, i, cur) ==
    IF i > Len(s) THEN <<cur>>
    ELSE IF s[i] = sep
         THEN <<cur>> \o SplitOnFrom(s, sep, i + 1, <<>>)
         ELSE SplitOnFrom(s, sep, i + 1, Append(cur, s[i]))

\* str.split(sep) for a one-character separator: every piece, empty ones too.
splitOn(s, sep) == SplitOnFrom(s, sep, 1, <<>>)

\* str.splitlines() ("\n" is the alphabet's only line boundary): the lines
\* without their line breaks; a final line break opens no further line.
splitlines(s) ==
    LET p == splitOn(s, "\n")
    IN  IF p[Len(p)] = <<>> THEN SubSeq(p, 1, Len(p) - 1) ELSE p

RECURSIVE BreakBeforeBullets(_)
\* Line 393: re.sub(BULLET, '\n' + BULLET, text).
BreakBeforeBullets(s) ==
    IF s = <<>> THEN <<>>
    ELSE (IF s[1] = "BULLET" THEN <<"\n", "BULLET">> ELSE <<s[1]>>)
         \o BreakBeforeBullets(Tail(s))

\* Line 396: re.sub('([.!?]) ([A-Z...])', '\1\n\2', text): the space between
\* terminal punctuation and an upper-case letter becomes a line break (two
\* occurrences cannot overlap: one ends in a letter, the next starts with
\* punctuation).
BreakAfterSentences(s) ==
    [i \in 1..Len(s) |->
        IF /\ s[i] = " "
           /\ i > 1 /\ s[i - 1] \in TerminalChars
           /\ i < Len(s) /\ s[i + 1] \in UpperChars
        THEN "\n" ELSE s[i]]

\* Line 409: re.search('[.!?]$', current_sentence).
EndsTerminal(s) == s # <<>> /\ s[Len(s)] \in TerminalChars

RECURSIVE MergeCandidates(_, _, _, _)
\* Lines 402-419: the loop over the candidates, from candidate i on.
MergeCandidates(cands, i, processed, current) ==
    IF i > Len(cands)
    THEN IF current # <<>> THEN Append(processed, current) ELSE processed
    ELSE IF strip(cands[i]) = <<>>
         THEN MergeCandidates(cands, i + 1, processed, current)
         ELSE IF current # <<>> /\ ~EndsTerminal(current)
              THEN MergeCandidates(cands, i + 1, processed,
                                   current \o <<" ">> \o cands[i])
              ELSE MergeCandidates(cands, i + 1,
                                   IF current # <<>>
                                   THEN Append(processed, current)
                                   ELSE processed,
                                   cands[i])

extract_sentences(text) ==
    LET t1 == join(splitlines(text))
        t2 == join(split(t1))
        t3 == BreakBeforeBullets(t2)
        t4 == BreakAfterSentences(t3)
        sentences == splitOn(t4, "\n")
    IN  MergeCandidates(sentences, 1, <<>>, <<>>)

(***************************************************************************)
(* get_chunks (lines 421-433)                                              *)
(***************************************************************************)

\* Line 421: the default of the parameter chunk_size.
chunk_size == 5

\* seq[i : i + n - 1]: a window one word short.
SliceShort(seq, i, n) ==
    IF i >= Len(seq) THEN <<>>
    ELSE SubSeq(seq, i + 1, IF i + n - 1 <= Len(seq) THEN i + n - 1 ELSE Len(seq))

\* seq[i : i + n] of Python, i counted from 0: clipped at the end.
Slice(seq, i, n) ==
    IF i >= Len(seq) THEN <<>>
    ELSE SubSeq(seq, i + 1, IF i + n <= Len(seq) THEN i + n ELSE Len(seq))

\* The list of (orig_chunk, norm_chunk) pairs of one sentence: window i of
\* the original words with window i of the normalized sentence's words.
get_chunks(text) ==
    LET words == split(text)
        norm_words == split(normalize_for_comparison(text))
        count == Len(words) - chunk_size + 1
    IN  [k \in 1..(IF count > 0 THEN count ELSE 0) |->
            << join(Slice(words, k - 1, chunk_size)),
               join(Slice(norm_words, k - 1, chunk_size)) >>]

(***************************************************************************)
(* find_matches.process_file (lines 440-453)                               *)
(***************************************************************************)

RECURSIVE AllChunks(_)
\* The (orig, norm) pairs in the order lines 448-449 visit them.
AllChunks(sentences) ==
    IF sentences = <<>> THEN <<>>
    ELSE get_chunks(sentences[1]) \o AllChunks(Tail(sentences))

\* Lines 445-451: chunks_map[norm_chunk] = orig_chunk for every pair with a
\* non-empty norm_chunk, a later pair overwriting an earlier one.
ChunksMap(sentences) ==
    LET pairs == AllChunks(sentences)
        keyset == {pairs[k][2] : k \in {n \in 1..Len(pairs) : pairs[n][2] # <<>>}}
    IN  [key \in keyset |->
            LET at == {k \in 1..Len(pairs) : pairs[k][2] = key}
            IN  pairs[CHOOSE k \in at : \A m \in at : m <= k][1]]

\* Line 446: {sentence: i for i, sentence in enumerate(sentences)}: of equal
\* sentences the last index stays.
PosMap(sentences) ==
    [s \in {sentences[k] : k \in 1..Len(sentences)} |->
        LET at == {k \in 1..Len(sentences) : sentences[k] = s}
        IN  (CHOOSE k \in at : \A m \in at : m <= k) - 1]

RECURSIVE UnsortedSeq(_)
\* Line 477 without sorted(): the keys in some other order (here descending).
UnsortedSeq(S) ==
    IF S = {} THEN <<>>
    ELSE LET greatest == CHOOSE s \in S : \A t \in S : t = s \/ StrLess(t, s)
         IN  <<greatest>> \o UnsortedSeq(S \ {greatest})

RECURSIVE SortedSeq(_)
\* sorted(set of str): ascending by code point.
SortedSeq(S) ==
    IF S = {} THEN <<>>
    ELSE LET least == CHOOSE s \in S : \A t \in S : t = s \/ StrLess(s, t)
         IN  <<least>> \o SortedSeq(S \ {least})

\* Lines 494-495: next((s for s in sentences if chunk in s), None); the
\* result is <<>> for None (line 498 treats both alike).
FirstContaining(sentences, chunk) ==
    LET at == {k \in 1..Len(sentences) : Contains(chunk, sentences[k])}
    IN  IF at = {} THEN <<>>
        ELSE sentences[CHOOSE k \in at : \A m \in at : k <= m]

(***************************************************************************)
(* Inputs                                                                  *)
(***************************************************************************)

\* Text fragments a PDF's extracted text is made of, one per line.
Fragments ==
    << \* A b c d e f.         a plain sentence of six words
       <<"A", " ", "b", " ", "c", " ", "d", " ", "e", " ", "f", ".">>,
       \* BULLET z b c d e f.  a bulleted item: normalisation drops a word
       <<"BULLET", " ", "z", " ", "b", " ", "c", " ", "d", " ", "e", " ", "f", ".">>,
       \* B b c d e g.         shares the four words b c d e with the first
       <<"B", " ", "b", " ", "c", " ", "d", " ", "e", " ", "g", ".">>,
       \* A b c d BULLET e     a bullet inside a line, no terminal punctuation
       <<"A", " ", "b", " ", "c", " ", "d", " ", "BULLET", " ", "e">> >>

\* At most this many fragments make up one extracted text.
MaxFragments == 2

\* The texts pdftotext may have written for one PDF.
Contents ==
    { JoinWith(<<"\n">>, [k \in 1..Len(f) |-> Fragments[f[k]]]) :
        f \in UNION {[1..m -> 1..Len(Fragments)] : m \in 0..MaxFragments} }

\* len(sys.argv) of an invocation.
ArgCounts == {2, 3, 4}

\* A colour dictionary returned by extract_text_with_colors: <<>> is the
\* empty dict, <<fg, bg>> a dict that holds this pair for every span text
\* looked up ("None" is Python's None).
ColorDicts == {<<>>, <<"rot", "None">>}

\* The report file before the run: absent, or left by an earlier run.
StaleLine ==
    [kind |-> "stale", doc |-> 0, num |-> 0, text |-> <<>>, fg |-> "", bg |-> ""]

(***************************************************************************)
(* State                                                                   *)
(***************************************************************************)

VARIABLES
    pc,                 \* position in main / find_matches
    argc,               \* len(sys.argv)
    exit_status,        \* the process's exit status; -1 while it runs
    failure,            \* what ended the run early, "none" otherwise
    colors1, colors2,   \* line 437-438
    sentences1, chunks_map1, pos_map1,   \* line 460
    sentences2, chunks_map2, pos_map2,   \* line 463
    keys,               \* sorted(chunks_map1.keys()), line 477
    idx,                \* number of keys the loop has taken
    seen_matches,       \* line 469
    matched_sentences,  \* line 470 (the dict's key set)
    matches_found,      \* line 471
    report,             \* the lines of the report file
    calls,              \* history: the steps taken so far (which, pdftotext,
                        \* colors = extract_text_with_colors entered, read,
                        \* open_w / open_a = the report opened with that mode)
    outcomes,           \* history: what the loop did with each key taken
    matches,            \* history: the accepted Matches, in order
    nphase, ninput, nonce, ntwice,  \* normalisation applied once and twice
    cpc,                \* position in extract_text_with_colors
    fitz_doc,           \* the document of fitz.open, line 194
    pdf_file,           \* the file of open(pdf_path, 'rb'), line 267
    spans,              \* the spans PyMuPDF has still to yield
    text_colors,        \* line 186
    color_lines,        \* the colour lines written for a match, lines 524-527
    sphase, stext, ssentences   \* extract_sentences applied to a text

runvars ==
    << pc, argc, exit_status, failure, colors1, colors2,
       sentences1, chunks_map1, pos_map1, sentences2, chunks_map2, pos_map2,
       keys, idx, seen_matches, matched_sentences, matches_found,
       report, calls, outcomes, matches >>

normvars == << nphase, ninput, nonce, ntwice >>

colorvars == << cpc, fitz_doc, pdf_file, spans, text_colors, color_lines >>

sentvars == << sphase, stext, ssentences >>

vars == << runvars, normvars, colorvars, sentvars >>

matchvars ==
    << keys, idx, seen_matches, matched_sentences, matches_found,
       outcomes, matches >>

docvars ==
    << sentences1, chunks_map1, pos_map1, sentences2, chunks_map2, pos_map2 >>

RunInit ==
    /\ pc = "start"
    /\ argc \in ArgCounts
    /\ exit_status = -1
    /\ failure = "none"
    /\ colors1 = <<>> /\ colors2 = <<>>
    /\ sentences1 = <<>> /\ chunks_map1 = <<>> /\ pos_map1 = <<>>
    /\ sentences2 = <<>> /\ chunks_map2 = <<>> /\ pos_map2 = <<>>
    /\ keys = <<>> /\ idx = 0
    /\ seen_matches = {} /\ matched_sentences = {} /\ matches_found = 0
    /\ report \in {<<>>, <<StaleLine>>}
    /\ calls = <<>> /\ outcomes = <<>> /\ matches = <<>>

NormIdle == nphase = "idle" /\ ninput = <<>> /\ nonce = <<>> /\ ntwice = <<>>

ColorIdle ==
    /\ cpc = "off"
    /\ fitz_doc = "unopened" /\ pdf_file = "unopened"
    /\ spans = <<>> /\ text_colors = <<>> /\ color_lines = <<>>

SentIdle == sphase = "idle" /\ stext = <<>> /\ ssentences = <<>>

Init == RunInit /\ NormIdle /\ ColorIdle /\ SentIdle

(***************************************************************************)
(* main (lines 569-596)                                                    *)
(***************************************************************************)

\* sys.exit(1), or an exception nobody catches: the interpreter exits with 1.
Abort(why) ==
    /\ pc' = "exit"
    /\ exit_status' = 1
    /\ failure' = why

\* Lines 571-573.
CheckArguments ==
    /\ pc = "start"
    /\ IF argc # 3
       THEN Abort("usage")
       ELSE pc' = "deps" /\ UNCHANGED <<exit_status, failure>>
    /\ UNCHANGED <<argc, colors1, colors2, docvars, matchvars, report, calls>>
    /\ UNCHANGED <<normvars, colorvars, sentvars>>

\* Lines 21-27 called at line 587: a missing tool ends the run.
check_dependencies ==
    /\ pc = "deps"
    /\ \E installed \in BOOLEAN :
          IF installed
          THEN pc' = "extract1" /\ UNCHANGED <<exit_status, failure>>
          ELSE Abort("dependency")
    /\ calls' = Append(calls, "which")
    /\ UNCHANGED <<argc, colors1, colors2, docvars, matchvars, report>>
    /\ UNCHANGED <<normvars, colorvars, sentvars>>

\* subprocess.run without check=True: a failed extraction goes unnoticed and
\* main carries on.
AfterExtractionUnchecked(n, succeeded) ==
    /\ pc' = (IF n = 1 THEN "extract2" ELSE "colors1")
    /\ failure' = (IF succeeded THEN failure ELSE "extraction")
    /\ UNCHANGED exit_status

\* Where main goes after pdftotext ran on PDF n: subprocess.run(check=True)
\* raises CalledProcessError on a non-zero return code, and main catches
\* nothing.
AfterExtraction(n, succeeded) ==
    IF succeeded
    THEN pc' = (IF n = 1 THEN "extract2" ELSE "colors1")
         /\ UNCHANGED <<exit_status, failure>>
    ELSE Abort("extraction")

\* Lines 351-353 called at lines 591 and 592.
extract_text_from_pdf(n) ==
    /\ pc = (IF n = 1 THEN "extract1" ELSE "extract2")
    /\ \E succeeded \in BOOLEAN : AfterExtraction(n, succeeded)
    /\ calls' = Append(calls, "pdftotext")
    /\ UNCHANGED <<argc, colors1, colors2, docvars, matchvars, report>>
    /\ UNCHANGED <<normvars, colorvars, sentvars>>

(***************************************************************************)
(* extract_text_with_colors (lines 184-349), called at lines 437-438       *)
(***************************************************************************)

\* Lines 192-251, the PyMuPDF path inside try/except Exception: it returns
\* its dict when that is non-empty; an exception, or an empty dict, leads on
\* to the PDFMiner path.
ColorsPrimary(n) ==
    /\ pc = (IF n = 1 THEN "colors1" ELSE "colors2")
    /\ \E raised \in BOOLEAN, dict \in ColorDicts :
          IF ~raised /\ dict # <<>>
          THEN /\ pc' = (IF n = 1 THEN "colors2" ELSE "process1")
               /\ colors1' = (IF n = 1 THEN dict ELSE colors1)
               /\ colors2' = (IF n = 2 THEN dict ELSE colors2)
          ELSE /\ pc' = (IF n = 1 THEN "fallback1" ELSE "fallback2")
               /\ UNCHANGED <<colors1, colors2>>
    /\ calls' = Append(calls, "colors")
    /\ UNCHANGED <<argc, exit_status, failure, docvars, matchvars, report>>
    /\ UNCHANGED <<normvars, colorvars, sentvars>>

\* Lines 253-349, the PDFMiner path: no try statement encloses it, and
\* neither find_matches (lines 437-438) nor main (line 596) catches, so an
\* exception raised here ends the process.
ColorsFallback(n) ==
    /\ pc = (IF n = 1 THEN "fallback1" ELSE "fallback2")
    /\ \E raised \in BOOLEAN, dict \in ColorDicts :
          IF raised
          THEN /\ Abort("color")
               /\ UNCHANGED <<colors1, colors2>>
          ELSE /\ pc' = (IF n = 1 THEN "colors2" ELSE "process1")
               /\ colors1' = (IF n = 1 THEN dict ELSE colors1)
               /\ colors2' = (IF n = 2 THEN dict ELSE colors2)
               /\ UNCHANGED <<exit_status, failure>>
    /\ UNCHANGED <<argc, docvars, matchvars, report, calls>>
    /\ UNCHANGED <<normvars, colorvars, sentvars>>

\* colors.get(text, (None, None)), lines 520-521.
ColorLookup(colors, text) ==
    IF colors = <<>> THEN <<"None", "None">> ELSE colors

(***************************************************************************)
(* find_matches (lines 435-567)                                            *)
(***************************************************************************)

\* Lines 440-453: what process_file returns for a file holding content.
ProcessFile(content) ==
    LET sentences == extract_sentences(content)
    IN  [sentences |-> sentences,
         chunks_map |-> ChunksMap(sentences),
         pos_map |-> PosMap(sentences)]

\* A text may also have this many lines, each one of the first three
\* fragments.
LongLines == 3

\* The longer texts pdftotext may have written for one PDF.
LongContents ==
    { JoinWith(<<"\n">>, [k \in 1..LongLines |-> Fragments[f[k]]]) :
        f \in [1..LongLines -> 1..3] }

\* ProcessFile tabulated over the texts a file may hold.
Processed == [content \in Contents \cup LongContents |-> ProcessFile(content)]

\* Line 460 or 463: the three values process_file returns for a text are
\* bound to the variables of document n.
Unpack(n, content) ==
    IF n = 1
    THEN /\ sentences1' = Processed[content].sentences
         /\ chunks_map1' = Processed[content].chunks_map
         /\ pos_map1' = Processed[content].pos_map
         /\ UNCHANGED <<sentences2, chunks_map2, pos_map2>>
    ELSE /\ sentences2' = Processed[content].sentences
         /\ chunks_map2' = Processed[content].chunks_map
         /\ pos_map2' = Processed[content].pos_map
         /\ UNCHANGED <<sentences1, chunks_map1, pos_map1>>

\* Lines 460 and 463: process_file reads the text pdftotext wrote for PDF n.
process_file(n) ==
    /\ pc = (IF n = 1 THEN "process1" ELSE "process2")
    /\ \E content \in Contents : Unpack(n, content)
    /\ pc' = (IF n = 1 THEN "process2" ELSE "begin")
    /\ calls' = Append(calls, "read")
    /\ UNCHANGED <<argc, exit_status, failure, colors1, colors2, matchvars, report>>
    /\ UNCHANGED <<normvars, colorvars, sentvars>>

\* Lines 460 and 463 for PDFs whose texts are the longer ones.
process_long_file(n) ==
    /\ pc = (IF n = 1 THEN "process1" ELSE "process2")
    /\ \E content \in LongContents : Unpack(n, content)
    /\ pc' = (IF n = 1 THEN "process2" ELSE "begin")
    /\ calls' = Append(calls, "read")
    /\ UNCHANGED <<argc, exit_status, failure, colors1, colors2, matchvars, report>>
    /\ UNCHANGED <<normvars, colorvars, sentvars>>

\* Lines 469-477: the loop's state, the report file opened with mode 'w',
\* and the sorted key list the loop walks.
BeginMatching ==
    /\ pc = "begin"
    /\ seen_matches' = {}
    /\ matched_sentences' = {}
    /\ matches_found' = 0
    /\ report' = <<>>
    /\ calls' = Append(calls, "open_w")
    /\ keys' = SortedSeq(DOMAIN chunks_map1)
    /\ idx' = 0
    /\ pc' = "loop"
    /\ UNCHANGED <<argc, exit_status, failure, colors1, colors2, docvars,
                   outcomes, matches>>
    /\ UNCHANGED <<normvars, colorvars, sentvars>>

\* One line of the report file.  Lines whose text never varies (the caption
\* at line 518, the rules at lines 532 and 546, the blank lines) are left out.
Line(kind, doc, num, text, fg, bg) ==
    [kind |-> kind, doc |-> doc, num |-> num, text |-> text, fg |-> fg, bg |-> bg]

\* Lines 524-527: the colour line of one document, written when either
\* colour is truthy; a missing colour reads 'standard'.
ColorLines(doc, pair) ==
    IF pair[1] # "None" \/ pair[2] # "None"
    THEN << Line("color", doc, 0, <<>>,
                 IF pair[1] # "None" THEN pair[1] ELSE "standard",
                 IF pair[2] # "None" THEN pair[2] ELSE "standard") >>
    ELSE <<>>

\* Lines 534-536 and 548-550: sentences[k] for k in range(i-2, i), 0 <= k < len.
ContextBefore(doc, sentences, i) ==
    LET lo == IF i - 2 < 0 THEN 0 ELSE i - 2
        hi == IF i - 1 < Len(sentences) - 1 THEN i - 1 ELSE Len(sentences) - 1
    IN  [n \in 1..(IF hi >= lo THEN hi - lo + 1 ELSE 0) |->
            Line("context", doc, lo + n - 1, sentences[lo + n], "", "")]

\* Lines 540-542 and 554-556: sentences[k] for k in range(i+1, i+3), k < len.
ContextAfter(doc, sentences, i) ==
    LET lo == i + 1
        hi == IF i + 2 < Len(sentences) - 1 THEN i + 2 ELSE Len(sentences) - 1
    IN  [n \in 1..(IF hi >= lo THEN hi - lo + 1 ELSE 0) |->
            Line("context", doc, lo + n - 1, sentences[lo + n], "", "")]

\* Lines 515-557: the block appended for one accepted match.
MatchBlock(num, orig1, orig2, s1, s2, i, j) ==
    << Line("header", 0, num, <<>>, "", ""),
       Line("chunk", 0, 0, orig1, "", "") >>
    \o ColorLines(1, ColorLookup(colors1, strip(orig1)))
    \o ColorLines(2, ColorLookup(colors2, strip(orig2)))
    \o << Line("label", 1, 0, <<>>, "", "") >>
    \o ContextBefore(1, sentences1, i)
    \o << Line("hit", 1, 0, s1, "", "") >>
    \o ContextAfter(1, sentences1, i)
    \o << Line("label", 2, 0, <<>>, "", "") >>
    \o ContextBefore(2, sentences2, j)
    \o << Line("hit", 2, 0, s2, "", "") >>
    \o ContextAfter(2, sentences2, j)

\* The key the loop takes next.
chunk == keys[idx + 1]

InLoop == pc = "loop" /\ idx < Len(keys)

\* Line 479.
SkipsKey(key) == key \in seen_matches \/ key \notin DOMAIN chunks_map2

\* Lines 487-490 left out: no re-validation.
RevalidatedAlways(orig_chunk1, orig_chunk2) == TRUE

\* Lines 487-490: the two original chunks, each normalized again, agree.
Revalidated(orig_chunk1, orig_chunk2) ==
    normalize_for_comparison(orig_chunk1) = normalize_for_comparison(orig_chunk2)

\* Line 498.
SentencesFound(matching_sentence1, matching_sentence2) ==
    matching_sentence1 # <<>> /\ matching_sentence2 # <<>>

\* Line 502 with "and" for "or": a candidate is turned away only when both
\* of its sentences are matched already.
AlreadyMatchedBoth(matching_sentence1, matching_sentence2) ==
    /\ matching_sentence1 \in matched_sentences
    /\ matching_sentence2 \in matched_sentences

\* Line 502.
AlreadyMatched(matching_sentence1, matching_sentence2) ==
    \/ matching_sentence1 \in matched_sentences
    \/ matching_sentence2 \in matched_sentences

\* The loop variable moves on; what was done with the key is remembered.
Taken(what) ==
    /\ idx' = idx + 1
    /\ outcomes' = Append(outcomes, what)
    /\ UNCHANGED <<keys, pc, argc, exit_status, failure, colors1, colors2, docvars>>
    /\ UNCHANGED <<normvars, colorvars, sentvars>>

\* Lines 479-480: continue.
SkipKey ==
    /\ InLoop
    /\ SkipsKey(chunk)
    /\ Taken("absent")
    /\ UNCHANGED <<seen_matches, matched_sentences, matches_found, matches,
                   report, calls>>

\* Lines 482-491: the key is consumed, re-validation fails, continue.
RejectChunk ==
    /\ InLoop
    /\ ~SkipsKey(chunk)
    /\ ~Revalidated(chunks_map1[chunk], chunks_map2[chunk])
    /\ seen_matches' = seen_matches \cup {chunk}
    /\ Taken("rejected")
    /\ UNCHANGED <<matched_sentences, matches_found, matches, report, calls>>

\* Lines 493-499: one of the sentence lookups yields None, continue.
SkipNoSentence ==
    /\ InLoop
    /\ ~SkipsKey(chunk)
    /\ Revalidated(chunks_map1[chunk], chunks_map2[chunk])
    /\ ~SentencesFound(FirstContaining(sentences1, chunks_map1[chunk]),
                       FirstContaining(sentences2, chunks_map2[chunk]))
    /\ seen_matches' = seen_matches \cup {chunk}
    /\ Taken("nosentence")
    /\ UNCHANGED <<matched_sentences, matches_found, matches, report, calls>>

\* Lines 501-503: one of the sentences is already matched, continue.
SkipMatched ==
    /\ InLoop
    /\ ~SkipsKey(chunk)
    /\ Revalidated(chunks_map1[chunk], chunks_map2[chunk])
    /\ LET s1 == FirstContaining(sentences1, chunks_map1[chunk])
           s2 == FirstContaining(sentences2, chunks_map2[chunk])
       IN  SentencesFound(s1, s2) /\ AlreadyMatched(s1, s2)
    /\ seen_matches' = seen_matches \cup {chunk}
    /\ Taken("used")
    /\ UNCHANGED <<matched_sentences, matches_found, matches, report, calls>>

\* Lines 505-557: the match is accepted and its block appended to the report.
AcceptMatch ==
    /\ InLoop
    /\ ~SkipsKey(chunk)
    /\ Revalidated(chunks_map1[chunk], chunks_map2[chunk])
    /\ LET orig_chunk1 == chunks_map1[chunk]
           orig_chunk2 == chunks_map2[chunk]
           s1 == FirstContaining(sentences1, orig_chunk1)
           s2 == FirstContaining(sentences2, orig_chunk2)
       IN  /\ SentencesFound(s1, s2)
           /\ ~AlreadyMatched(s1, s2)
           /\ matches_found' = matches_found + 1
           /\ matched_sentences' = matched_sentences \cup {s1, s2}
           /\ report' = report \o MatchBlock(matches_found + 1, orig_chunk1,
                                             orig_chunk2, s1, s2,
                                             pos_map1[s1], pos_map2[s2])
           /\ matches' = Append(matches,
                  [key |-> chunk, chunk1 |-> orig_chunk1, chunk2 |-> orig_chunk2,
                   sentence1 |-> s1, sentence2 |-> s2,
                   i |-> pos_map1[s1], j |-> pos_map2[s2]])
    /\ seen_matches' = seen_matches \cup {chunk}
    /\ calls' = Append(calls, "open_a")
    /\ Taken("accepted")

\* Lines 561-567 without the test for zero: always the count line.
SummaryLineCountOnly(found) ==
    [kind |-> "count", doc |-> 0, num |-> found, text |-> <<>>, fg |-> "", bg |-> ""]

\* Lines 561-567: the summary line.
SummaryLine(found) ==
    IF found = 0
    THEN Line("no_matches", 0, 0, <<>>, "", "")
    ELSE Line("count", 0, found, <<>>, "", "")

\* Lines 559-567, then main returns and the interpreter exits with 0.
WriteSummary ==
    /\ pc = "loop"
    /\ idx = Len(keys)
    /\ report' = Append(report, SummaryLine(matches_found))
    /\ calls' = Append(calls, "open_a")
    /\ pc' = "exit"
    /\ exit_status' = 0
    /\ UNCHANGED <<argc, failure, colors1, colors2, docvars, matchvars>>
    /\ UNCHANGED <<normvars, colorvars, sentvars>>

Next ==
    \/ CheckArguments
    \/ check_dependencies
    \/ extract_text_from_pdf(1)
    \/ extract_text_from_pdf(2)
    \/ ColorsPrimary(1)
    \/ ColorsFallback(1)
    \/ ColorsPrimary(2)
    \/ ColorsFallback(2)
    \/ process_file(1)
    \/ process_file(2)
    \/ BeginMatching
    \/ SkipKey
    \/ RejectChunk
    \/ SkipNoSentence
    \/ SkipMatched
    \/ AcceptMatch
    \/ WriteSummary

Spec == Init /\ [][Next]_vars

\* The same program run on PDFs whose texts are the longer ones.
LongNext ==
    \/ CheckArguments
    \/ check_dependencies
    \/ extract_text_from_pdf(1)
    \/ extract_text_from_pdf(2)
    \/ ColorsPrimary(1)
    \/ ColorsFallback(1)
    \/ ColorsPrimary(2)
    \/ ColorsFallback(2)
    \/ process_long_file(1)
    \/ process_long_file(2)
    \/ BeginMatching
    \/ SkipKey
    \/ RejectChunk
    \/ SkipNoSentence
    \/ SkipMatched
    \/ AcceptMatch
    \/ WriteSummary

SpecLong == Init /\ [][LongNext]_vars

(***************************************************************************)
(* normalize_for_comparison applied to its own result                      *)
(***************************************************************************)

\* The characters the inputs are made of.
NormAlphabet == {" ", ",", ".", "1", "a", "A", "BULLET"}

\* The longest input.
MaxNormLen == 4

NormInputs == UNION {[1..n -> NormAlphabet] : n \in 0..MaxNormLen}

\* No run of main: only the normalizer is exercised.
RunOff ==
    /\ pc = "off"
    /\ argc = 3
    /\ exit_status = -1
    /\ failure = "none"
    /\ colors1 = <<>> /\ colors2 = <<>>
    /\ sentences1 = <<>> /\ chunks_map1 = <<>> /\ pos_map1 = <<>>
    /\ sentences2 = <<>> /\ chunks_map2 = <<>> /\ pos_map2 = <<>>
    /\ keys = <<>> /\ idx = 0
    /\ seen_matches = {} /\ matched_sentences = {} /\ matches_found = 0
    /\ report = <<>>
    /\ calls = <<>> /\ outcomes = <<>> /\ matches = <<>>

NormInit ==
    /\ RunOff
    /\ ColorIdle
    /\ SentIdle
    /\ nphase = "input"
    /\ ninput \in NormInputs
    /\ nonce = <<>>
    /\ ntwice = <<>>

NormalizeOnce ==
    /\ nphase = "input"
    /\ nonce' = normalize_for_comparison(ninput)
    /\ nphase' = "once"
    /\ UNCHANGED <<ninput, ntwice>>
    /\ UNCHANGED <<runvars, colorvars, sentvars>>

NormalizeTwice ==
    /\ nphase = "once"
    /\ ntwice' = normalize_for_comparison(nonce)
    /\ nphase' = "twice"
    /\ UNCHANGED <<ninput, nonce>>
    /\ UNCHANGED <<runvars, colorvars, sentvars>>

NormNext == NormalizeOnce \/ NormalizeTwice

SpecNorm == NormInit /\ [][NormNext]_vars

(***************************************************************************)
(* extract_text_with_colors span by span, and the colour line of a match   *)
(***************************************************************************)

\* The largest and the smallest of three numbers.
Max3(a, b, c) ==
    IF a >= b /\ a >= c THEN a ELSE IF b >= c THEN b ELSE c

Min3(a, b, c) ==
    IF a <= b /\ a <= c THEN a ELSE IF b <= c THEN b ELSE c

\* Lines 47-108.  rgb is <<r255, g255, b255>>, the three integers of lines
\* 50-52.  intensity = max_val / 255 and saturation = (max_val - min_val) /
\* max_val are compared with their thresholds in whole numbers.  The names
\* with non-ASCII letters are spelled "weiss", "gruen", "gelbgruen",
\* "dunkelgruen", "hellgruen"; "RGB" stands for the hex fallback of line 107.
get_color_name(rgb) ==
    LET r255 == rgb[1]
        g255 == rgb[2]
        b255 == rgb[3]
        max_val == Max3(r255, g255, b255)
        min_val == Min3(r255, g255, b255)
        dark == 100 * max_val < 60 * 255
    IN  IF max_val = 0 \/ 100 * (max_val - min_val) < 15 * max_val
        THEN IF 100 * max_val < 12 * 255 THEN "schwarz"
             ELSE IF 100 * max_val > 88 * 255 THEN "weiss"
             ELSE IF 100 * max_val < 40 * 255 THEN "dunkelgrau"
             ELSE IF 100 * max_val > 60 * 255 THEN "hellgrau"
             ELSE "grau"
        ELSE IF 10 * (max_val - min_val) > 7 * max_val
                   /\ r255 > 200 /\ g255 < 100 /\ b255 < 100 THEN "rot"
        ELSE IF 10 * (max_val - min_val) > 7 * max_val
                   /\ r255 < 100 /\ g255 > 200 /\ b255 < 100 THEN "gruen"
        ELSE IF 10 * (max_val - min_val) > 7 * max_val
                   /\ r255 < 100 /\ g255 < 100 /\ b255 > 200 THEN "blau"
        ELSE IF 10 * (max_val - min_val) > 7 * max_val
                   /\ r255 > 200 /\ g255 > 200 /\ b255 < 100 THEN "gelb"
        ELSE IF 10 * (max_val - min_val) > 7 * max_val
                   /\ r255 > 200 /\ g255 < 100 /\ b255 > 200 THEN "magenta"
        ELSE IF 10 * (max_val - min_val) > 7 * max_val
                   /\ r255 < 100 /\ g255 > 200 /\ b255 > 200 THEN "cyan"
        ELSE IF r255 > g255 /\ r255 > b255
             THEN IF 10 * g255 > 6 * r255 THEN "orange"
                  ELSE IF dark THEN "dunkelrot" ELSE "hellrot"
        ELSE IF g255 > r255 /\ g255 > b255
             THEN IF 10 * r255 > 6 * g255 THEN "gelbgruen"
                  ELSE IF dark THEN "dunkelgruen" ELSE "hellgruen"
        ELSE IF b255 > r255 /\ b255 > g255
             THEN IF 10 * r255 > 6 * b255 THEN "violett"
                  ELSE IF dark THEN "dunkelblau" ELSE "hellblau"
        ELSE "RGB"

\* The colours a span or a text line may carry: pure black, a dark grey,
\* red, white.
Palette == {<<0, 0, 0>>, <<20, 20, 20>>, <<255, 0, 0>>, <<255, 255, 255>>}

\* Lines 204-239: the colour name of a span attribute; <<>> is an attribute
\* that is missing (the name is then None).
ColorNameOf(rgb) == IF rgb = <<>> THEN "None" ELSE get_color_name(rgb)

\* The spans of a page: a text that is not blank, its "color" and its
\* "background".
Spans ==
    [color : Palette \cup {<<>>}, background : {<<>>, <<0, 0, 0>>}]

\* At most this many spans are in the PDF.
MaxSpans == 2

\* What the PDFMiner path adds for the text looked up: nothing, or a pair.
MinerResults ==
    {<<>>} \cup {<<get_color_name(c), "None">> : c \in Palette}

\* One call of extract_text_with_colors on a PDF whose spans all carry the
\* text of the chunk that is looked up afterwards; no run of main.
ColorsInit ==
    /\ RunOff
    /\ NormIdle
    /\ SentIdle
    /\ cpc = "enter"
    /\ fitz_doc = "unopened" /\ pdf_file = "unopened"
    /\ spans \in UNION {[1..n -> Spans] : n \in 0..MaxSpans}
    /\ text_colors = <<>>
    /\ color_lines = <<>>

\* Line 194: fitz.open returns the document, or raises into line 249.
FitzOpen ==
    /\ cpc = "enter"
    /\ \E opened \in BOOLEAN :
          IF opened
          THEN fitz_doc' = "open" /\ cpc' = "spans"
          ELSE fitz_doc' = fitz_doc /\ cpc' = "miner"
    /\ UNCHANGED <<pdf_file, spans, text_colors, color_lines>>
    /\ UNCHANGED <<runvars, normvars, sentvars>>

\* Lines 195-245: the next span is inspected and its colours are stored
\* under its text, or the inspection raises and control passes to the
\* except clause at line 249, which leaves the document as it is.
InspectSpan ==
    /\ cpc = "spans"
    /\ spans # <<>>
    /\ \E raised \in BOOLEAN :
          IF raised
          THEN cpc' = "miner" /\ UNCHANGED <<spans, text_colors>>
          ELSE /\ text_colors' = << ColorNameOf(Head(spans).color),
                                    ColorNameOf(Head(spans).background) >>
               /\ spans' = Tail(spans)
               /\ cpc' = cpc
    /\ UNCHANGED <<fitz_doc, pdf_file, color_lines>>
    /\ UNCHANGED <<runvars, normvars, sentvars>>

\* Lines 246-248: doc.close(), then the dict is returned when it is not
\* empty.
FitzClose ==
    /\ cpc = "spans"
    /\ spans = <<>>
    /\ fitz_doc' = "closed"
    /\ cpc' = (IF text_colors # <<>> THEN "returned" ELSE "miner")
    /\ UNCHANGED <<pdf_file, spans, text_colors, color_lines>>
    /\ UNCHANGED <<runvars, normvars, sentvars>>

\* Lines 254-267: the PDFMiner objects are built and the file is opened by
\* the with statement; an exception here leaves the function.
MinerOpen ==
    /\ cpc = "miner"
    /\ \E opened \in BOOLEAN :
          IF opened
          THEN pdf_file' = "open" /\ cpc' = "miner_open"
          ELSE pdf_file' = pdf_file /\ cpc' = "raised"
    /\ UNCHANGED <<fitz_doc, spans, text_colors, color_lines>>
    /\ UNCHANGED <<runvars, normvars, sentvars>>

\* Lines 268-349: the body of the with statement, which closes the file on
\* the way out whether the body returns or raises; entries PyMuPDF stored
\* before it failed remain unless PDFMiner stores the same text.  Line 269
\* rebinds doc: a PyMuPDF document left open loses its last reference there,
\* and whether the interpreter finalizes (and so closes) it at that point is
\* up to the interpreter and the library.
MinerRead ==
    /\ cpc = "miner_open"
    /\ pdf_file' = "closed"
    /\ \E finalized \in BOOLEAN :
          fitz_doc' = (IF fitz_doc = "open" /\ finalized THEN "closed" ELSE fitz_doc)
    /\ \E raised \in BOOLEAN, found \in MinerResults :
          IF raised
          THEN cpc' = "raised" /\ UNCHANGED text_colors
          ELSE /\ cpc' = "returned"
               /\ text_colors' = (IF found # <<>> THEN found ELSE text_colors)
    /\ UNCHANGED <<spans, color_lines>>
    /\ UNCHANGED <<runvars, normvars, sentvars>>

\* Lines 520-527 for document 1 of an accepted match whose chunk is the text
\* of the spans.
WriteColorLines ==
    /\ cpc = "returned"
    /\ color_lines' = ColorLines(1, ColorLookup(text_colors, <<>>))
    /\ cpc' = "written"
    /\ UNCHANGED <<fitz_doc, pdf_file, spans, text_colors>>
    /\ UNCHANGED <<runvars, normvars, sentvars>>

ColorsNext ==
    \/ FitzOpen
    \/ InspectSpan
    \/ FitzClose
    \/ MinerOpen
    \/ MinerRead
    \/ WriteColorLines

SpecColors == ColorsInit /\ [][ColorsNext]_vars

(***************************************************************************)
(* extract_sentences applied to a text                                     *)
(***************************************************************************)

\* The characters the texts are made of.
SentAlphabet == {" ", ".", "a", "A", "BULLET"}

\* The longest text.
MaxTextLen == 4

SentInputs == UNION {[1..n -> SentAlphabet] : n \in 0..MaxTextLen}

\* No run of main: only extract_sentences is exercised.
SentInit ==
    /\ RunOff
    /\ NormIdle
    /\ ColorIdle
    /\ sphase = "input"
    /\ stext \in SentInputs
    /\ ssentences = <<>>

ExtractSentences ==
    /\ sphase = "input"
    /\ ssentences' = extract_sentences(stext)
    /\ sphase' = "done"
    /\ UNCHANGED stext
    /\ UNCHANGED <<runvars, normvars, colorvars>>

SentNext == ExtractSentences

SpecSent == SentInit /\ [][SentNext]_vars

(***************************************************************************)
(* Properties                                                              *)
(***************************************************************************)

\* The run went through the matching loop and wrote its summary.
Finished == pc = "exit" /\ failure = "none"

\* The run reached the matching stage of find_matches.
ReachedMatching == pc = "loop" \/ Finished

\* Every sentence extract_sentences returns for one of the inputs.
AllSentences ==
    UNION { {Processed[c].sentences[k] : k \in 1..Len(Processed[c].sentences)} :
            c \in DOMAIN Processed }

\* Every original chunk one of the inputs' indexes holds.
AllChunkValues ==
    UNION { {Processed[c].chunks_map[k] : k \in DOMAIN Processed[c].chunks_map} :
            c \in DOMAIN Processed }

\* The n-word windows of each sentence, each joined by spaces, for the two
\* widths the properties speak of.
WindowTable ==
    [s \in AllSentences |->
        [n \in 4..5 |->
            LET words == split(s)
            IN  {join(SubSeq(words, w, w + n - 1)) : w \in 1..(Len(words) - n + 1)}]]

\* normalize_for_comparison of every window and every indexed chunk.
NormTable ==
    [w \in AllChunkValues \cup UNION {WindowTable[s][n] : s \in AllSentences, n \in 4..5}
        |-> normalize_for_comparison(w)]

\* The n-word windows of the sentences of a document.
Windows(sentences, n) ==
    UNION {WindowTable[sentences[k]][n] : k \in 1..Len(sentences)}

\* Some n-word window of document A and some n-word window of document B
\* have the same normalized text.
ShareWindow(n) ==
    {NormTable[a] : a \in Windows(sentences1, n)}
        \cap {NormTable[b] : b \in Windows(sentences2, n)} # {}

\* The lines of the report of one kind.
LinesOf(kinds) ==
    LET Is(line) == line.kind \in kinds
    IN  SelectSeq(report, Is)

\* The positions of the keys the loop accepted, in the order it took them.
AcceptedAt ==
    LET Is(k) == outcomes[k] = "accepted"
    IN  SelectSeq([k \in 1..Len(outcomes) |-> k], Is)

\* C1: exclusivity. Whatever number of keys the loop has processed, no
\* sentence of document A (by its text, and so by its position index) is the
\* matched sentence of two accepted Matches, and none of document B either.
C1_Exclusivity ==
    \A m, n \in 1..Len(matches) :
        m # n =>
            /\ matches[m].sentence1 # matches[n].sentence1
            /\ matches[m].i # matches[n].i
            /\ matches[m].sentence2 # matches[n].sentence2
            /\ matches[m].j # matches[n].j

\* Two Matches were accepted and a later candidate was turned away because
\* its sentence was already matched.
C1_Witness ==
    /\ Len(matches) >= 2
    /\ \E k \in 1..Len(outcomes) : outcomes[k] = "used"

\* C2: round trip. For every accepted Match the original chunk held by
\* document A's index and the one held by document B's index normalize to
\* the same text, and every key the loop accepted is one whose two chunks
\* normalize to the same text.
C2_RoundTrip ==
    /\ \A m \in 1..Len(matches) :
          /\ matches[m].chunk1 = chunks_map1[matches[m].key]
          /\ matches[m].chunk2 = chunks_map2[matches[m].key]
          /\ NormTable[matches[m].chunk1] = NormTable[matches[m].chunk2]
    /\ \A k \in 1..Len(outcomes) :
          outcomes[k] = "accepted" =>
              /\ keys[k] \in DOMAIN chunks_map2
              /\ NormTable[chunks_map1[keys[k]]] = NormTable[chunks_map2[keys[k]]]

\* In one run a candidate failed re-validation and another was accepted.
C2_Witness ==
    /\ Len(matches) >= 1
    /\ \E k \in 1..Len(outcomes) : outcomes[k] = "rejected"

\* C3: chunk invariant. Every chunk that takes part in an accepted Match
\* normalizes to the key get_chunks paired it with; a chunk that does not is
\* never part of an accepted Match.
C3_ChunkMatchesKey ==
    \A m \in 1..Len(matches) :
        /\ normalize_for_comparison(matches[m].chunk1) = matches[m].key
        /\ normalize_for_comparison(matches[m].chunk2) = matches[m].key

\* C4: normalize_for_comparison is idempotent: applied to its own result it
\* returns that result.
C4_Idempotent == nphase = "twice" => ntwice = nonce

\* C5: ordering and deduplication. The loop walks the distinct keys of
\* document A's index in ascending order (each key less than the next); the
\* accepted Matches, and the blocks of the report, come in strictly
\* ascending order of the key each was found under, so no key yields two
\* Matches.
C5_SortedOrder ==
    /\ ReachedMatching =>
          /\ {keys[k] : k \in 1..Len(keys)} = DOMAIN chunks_map1
          /\ \A k \in 1..(Len(keys) - 1) : StrLess(keys[k], keys[k + 1])
    /\ Len(matches) = Len(AcceptedAt)
    /\ \A m \in 1..Len(matches) : matches[m].key = keys[AcceptedAt[m]]
    /\ \A m \in 1..(Len(matches) - 1) :
          StrLess(matches[m].key, matches[m + 1].key)
    /\ ReachedMatching =>
          LinesOf({"chunk"}) =
              [m \in 1..Len(matches) |->
                  Line("chunk", 0, 0, chunks_map1[matches[m].key], "", "")]

\* Two Matches were accepted, the first of them for the sentence that comes
\* later in document A.
C5_Witness ==
    /\ Len(matches) >= 2
    /\ matches[1].i > matches[2].i

\* C6: no match below the chunk size. Each accepted Match rests on a window
\* of five consecutive words of a sentence of document A and one of a
\* sentence of document B whose normalized texts are equal; a run that ends
\* with a Match is one whose documents share such a pair of windows.
C6_FiveWordWindow ==
    /\ \A m \in 1..Len(matches) :
          /\ matches[m].chunk1 \in Windows(sentences1, 5)
          /\ matches[m].chunk2 \in Windows(sentences2, 5)
          /\ NormTable[matches[m].chunk1] = NormTable[matches[m].chunk2]
    /\ (Finished /\ matches # <<>>) => ShareWindow(5)

\* The documents share a run of four words but none of five, and the run
\* ended without a Match.
C6_Witness ==
    /\ Finished
    /\ ShareWindow(4)
    /\ ~ShareWindow(5)
    /\ matches = <<>>

\* C7: when both documents consist of the same single sentence of at least
\* five words, exactly one Match is accepted, and its chunk is a five-word
\* window of that sentence.
C7_IdenticalSentence ==
    ( /\ Finished
      /\ Len(sentences1) = 1
      /\ sentences2 = sentences1
      /\ Len(split(sentences1[1])) >= 5 )
    => /\ Len(matches) = 1
       /\ matches[1].chunk1 \in Windows(sentences1, 5)

\* C8: the report. Once matching is reached the file has been truncated and
\* holds one block per accepted Match, the headers numbered 1, 2, .., k in
\* order; a finished run adds exactly one summary line at the end, the
\* no-matches message exactly when k = 0 and the count k otherwise; with an
\* empty document the report is the no-matches line alone.
C8_Report ==
    LET file_ops == LET Is(c) == c \in {"open_w", "open_a"}
                    IN  SelectSeq(calls, Is)
        summary == LinesOf({"no_matches", "count"})
    IN  /\ ReachedMatching =>
              /\ LinesOf({"stale"}) = <<>>
              /\ file_ops # <<>> /\ file_ops[1] = "open_w"
              /\ \A k \in 2..Len(file_ops) : file_ops[k] = "open_a"
              /\ LinesOf({"header"}) =
                    [k \in 1..matches_found |-> Line("header", 0, k, <<>>, "", "")]
              /\ Len(matches) = matches_found
        /\ pc = "loop" => summary = <<>>
        /\ Finished =>
              /\ Len(summary) = 1
              /\ report[Len(report)] = summary[1]
              /\ summary[1].kind = "no_matches" <=> matches_found = 0
              /\ summary[1].kind = "count" => summary[1].num = matches_found
              /\ (sentences1 = <<>> \/ sentences2 = <<>>) =>
                    /\ matches_found = 0
                    /\ report = <<Line("no_matches", 0, 0, <<>>, "", "")>>

\* A finished run with two blocks and the count line.
C8_Witness ==
    /\ Finished
    /\ matches_found = 2
    /\ report[Len(report)] = Line("count", 0, 2, <<>>, "", "")

\* The report of a finished run whose first document has no sentence.
C8_WitnessEmpty ==
    /\ Finished
    /\ sentences1 = <<>>
    /\ sentences2 # <<>>

\* C9: an exception raised while colours are extracted, in the PyMuPDF path
\* or in the PDFMiner path, never ends the run: every run that entered
\* extract_text_with_colors writes the report with its summary line.
C9_ColorFailureRecovered ==
    (pc = "exit" /\ \E k \in 1..Len(calls) : calls[k] = "colors")
    => /\ failure = "none"
       /\ exit_status = 0
       /\ LinesOf({"no_matches", "count"}) # <<>>

\* C10: when pdftotext fails for either PDF the run ends with a non-zero
\* status before colour extraction and matching begin, and the report file
\* is neither created, truncated nor appended to.
C10_ExtractionFailure ==
    failure = "extraction" =>
        /\ pc = "exit"
        /\ exit_status # 0
        /\ \A k \in 1..Len(calls) : calls[k] \in {"which", "pdftotext"}
        /\ report \in {<<>>, <<StaleLine>>}
        /\ colors1 = <<>> /\ colors2 = <<>>
        /\ sentences1 = <<>> /\ sentences2 = <<>>
        /\ outcomes = <<>>

\* The second PDF's extraction failed after the first one's succeeded, with
\* a report of an earlier run in place.
C10_Witness ==
    /\ failure = "extraction"
    /\ calls = <<"which", "pdftotext", "pdftotext">>
    /\ report = <<StaleLine>>

\* extract_text_with_colors has been left, by return or by an exception.
ColorsLeft == cpc \in {"returned", "raised", "written"}

\* C11: resource release. Once extract_text_with_colors has been left, by
\* return or by an exception, neither the document fitz.open returned nor
\* the file the PDFMiner path opened is still open.
C11_HandlesReleased ==
    ColorsLeft => fitz_doc # "open" /\ pdf_file # "open"

\* C12: black suppression. The colour lines written for a match never show
\* the name 'schwarz', and no colour line is written for a document whose
\* two colours are each black or absent.
C12_BlackSuppressed ==
    cpc = "written" =>
        /\ \A k \in 1..Len(color_lines) :
              color_lines[k].fg # "schwarz" /\ color_lines[k].bg # "schwarz"
        /\ (text_colors = <<>>
              \/ (text_colors[1] \in {"schwarz", "None"}
                    /\ text_colors[2] \in {"schwarz", "None"}))
           => color_lines = <<>>

\* C13: acceptance rule. A key that passed re-validation and whose two
\* sentences were located is turned away only if its document-A sentence is
\* the document-A sentence of a Match accepted before it, or its document-B
\* sentence the document-B sentence of such a Match; every accepted Match has
\* both its sentences marked used and is counted once.
C13_AcceptanceRule ==
    /\ \A k \in 1..Len(outcomes) :
          outcomes[k] = "used" =>
              \E m \in 1..Len(matches) :
                  /\ AcceptedAt[m] < k
                  /\ \/ matches[m].sentence1
                          = FirstContaining(sentences1, chunks_map1[keys[k]])
                     \/ matches[m].sentence2
                          = FirstContaining(sentences2, chunks_map2[keys[k]])
    /\ \A m \in 1..Len(matches) :
          {matches[m].sentence1, matches[m].sentence2} \subseteq matched_sentences
    /\ matches_found = Len(matches)

\* The position, counted from 0, of the first sentence that contains the
\* chunk.
FirstPosition(sentences, orig_chunk) ==
    (CHOOSE k \in 1..Len(sentences) :
        /\ Contains(orig_chunk, sentences[k])
        /\ \A l \in 1..(k - 1) : ~Contains(orig_chunk, sentences[l])) - 1

\* The context of a located sentence at position p: the sentences at p-2 and
\* p-1, the sentence itself, the sentences at p+1 and p+2.
ContextAround(doc, sentences, p) ==
    ContextBefore(doc, sentences, p)
        \o << Line("hit", doc, 0, sentences[p + 1], "", "") >>
        \o ContextAfter(doc, sentences, p)

\* The context lines of the first m Matches for one document, as they
\* follow from the positions of the located sentences.
RECURSIVE ContextsAround(_, _)
ContextsAround(doc, m) ==
    IF m = 0 THEN <<>>
    ELSE ContextsAround(doc, m - 1)
         \o (IF doc = 1
             THEN ContextAround(1, sentences1,
                                FirstPosition(sentences1, matches[m].chunk1))
             ELSE ContextAround(2, sentences2,
                                FirstPosition(sentences2, matches[m].chunk2)))

\* The context and hit lines the report holds for one document.
ContextLines(doc) ==
    LET Is(line) == line.kind \in {"context", "hit"} /\ line.doc = doc
    IN  SelectSeq(report, Is)

\* C14: context positions. For every accepted Match and each document the
\* report shows the sentences at positions p-2 and p-1, the matched sentence
\* and the sentences at p+1 and p+2, clipped to the document, where p is the
\* position of the first sentence that contains the original chunk.
C14_ContextPositions ==
    ReachedMatching =>
        /\ ContextLines(1) = ContextsAround(1, Len(matches))
        /\ ContextLines(2) = ContextsAround(2, Len(matches))

\* Lines 387-390: the text with its line breaks and runs of whitespace
\* collapsed to single spaces.
Collapsed(text) == join(split(join(splitlines(text))))

\* A text without its spaces.
Squeezed(s) == DeleteChars(s, {" "})

\* The collapsed text has terminal punctuation at position i, then a space,
\* then a bullet or an upper-case letter.
BoundaryAt(c, i) ==
    /\ i + 2 <= Len(c)
    /\ c[i] \in TerminalChars
    /\ c[i + 1] = " "
    /\ c[i + 2] \in {"BULLET"} \cup UpperChars

\* C15: sentence sealing. Wherever the collapsed text has terminal
\* punctuation, a space and then a bullet or an upper-case letter, a
\* sentence ends there: the first k sentences, for some k short of all, are
\* the text up to the punctuation and the next sentence begins after it.
C15_SentenceSealing ==
    sphase = "done" =>
        LET c == Collapsed(stext)
        IN  \A i \in 1..Len(c) :
                BoundaryAt(c, i) =>
                    \E k \in 1..(Len(ssentences) - 1) :
                        Squeezed(JoinWith(<<>>, SubSeq(ssentences, 1, k)))
                            = Squeezed(SubSeq(c, 1, i))

\* C16: every original chunk a document's index holds is a substring of a
\* sentence of that document, so the loop never drops a key for lack of a
\* containing sentence.
C16_ChunkInSentence ==
    ReachedMatching =>
        /\ \A key \in DOMAIN chunks_map1 :
              FirstContaining(sentences1, chunks_map1[key]) # <<>>
        /\ \A key \in DOMAIN chunks_map2 :
              FirstContaining(sentences2, chunks_map2[key]) # <<>>
        /\ \A k \in 1..Len(outcomes) : outcomes[k] # "nosentence"

====
